---- MODULE Spec2Model ----
(***************************************************************************)
(* GitOps-Time-Machine: the collector, the snapshot store, the version     *)
(* store, the time-travel engine, the drift analyzer and the scheduler,    *)
(* as state machines translated from the Go sources.                       *)
(*                                                                         *)
(* Go strings that the code compares or rewrites character by character   *)
(* (names, kinds, namespaces, full names) are sequences of one-character   *)
(* strings; map keys and field paths are TLA+ strings.                     *)
(* A Go value of type interface{} or map is a tagged record, so that a nil *)
(* map, an empty map, an int and an int64 are four different values, as    *)
(* they are for reflect.DeepEqual.                                         *)
(***************************************************************************)
EXTENDS Integers, Sequences, FiniteSets, TLC

VARIABLES
    \* ---- analyzer: the inputs of Compare and the reports it returned
    cmpBase,        \* base snapshot handed to Compare
    cmpTarget,      \* target snapshot handed to Compare
    cmpNow,         \* the wall clock time.Now() reads
    cmpFirst,       \* <<report>> once Compare(base, target) has returned
    cmpSecond,      \* <<report>> once a second Compare(base, target) has returned
    cmpSwapped,     \* <<report>> once Compare(target, base) has returned
    \* ---- collector: one Collect call against a cluster
    colCfg,         \* the configuration (config.Config)
    colApi,         \* what the cluster API answers to List
    colSnapshot,    \* <<snapshot>> once Collect has returned
    \* ---- the capture pipeline and the time-travel engine on one output directory
    cluster,        \* what the cluster API answers to List
    clock,          \* the last reading of time.Now()
    pc,             \* where the capture run is: "idle", "collected", "written"
    captured,       \* <<snapshot>>: the snapshot in memory, collected and then written
    outputDir,      \* the files under the output directory
    gitRepo,        \* the git repository in the output directory
    commitResult,   \* <<hash>> once Commit has returned
    readBack,       \* <<result>> once Read has returned, until the tree is rewritten
    travel,         \* <<result>> once SnapshotByCommit or SnapshotAt has returned
    ioFails,        \* what the file system refuses during the run: writing
                    \* _metadata.yaml, and the manifest paths that cannot be written
    quiet,          \* completed capture runs since the cluster last changed, and
                    \* the number of commits there were before them
    \* ---- FindCommitByTime on a history
    findRepo,       \* the repository
    findResult,     \* <<[target, hash, err]>> once FindCommitByTime has returned,
                    \* <<[limit, entries]>> once History has
    \* ---- one Scheduler, its cron and the goroutines around it
    running,        \* Scheduler.running
    cancelFn,       \* Scheduler.cancelFn: the Start call whose context it cancels, 0 for nil
    cronEntries,    \* the jobs added to the cron: for each, the Start call whose
                    \* child context its closure holds
    cronRunning,    \* the cron's run loop is started
    startPc,        \* where each Start call is
    ctxDone,        \* the child context of each Start call is cancelled
    parentDone,     \* the context handed to Start is cancelled
    stopDuring,     \* the Start calls that had set the running flag and had not
                    \* returned when a call of Stop was made
    failedLogged,   \* "scheduler: snapshot failed" has been logged: an invocation
                    \* of snapshotFn has returned an error
    inflight        \* per Start call, the invocations of snapshotFn with its child
                    \* context that have not returned

cmpVars == <<cmpBase, cmpTarget, cmpNow, cmpFirst, cmpSecond, cmpSwapped>>

colVars == <<colCfg, colApi, colSnapshot>>

storeVars == <<cluster, clock, pc, captured, outputDir, gitRepo, commitResult, readBack,
               travel, ioFails, quiet>>

findVars == <<findRepo, findResult>>

schedVars == <<running, cancelFn, cronEntries, cronRunning, startPc, ctxDone, parentDone,
               stopDuring, failedLogged, inflight>>

\* What an operation of one component leaves alone: the other components.
notCmpVars == <<colVars, storeVars, findVars, schedVars>>

notColVars == <<cmpVars, storeVars, findVars, schedVars>>

notStoreVars == <<cmpVars, colVars, findVars, schedVars>>

notFindVars == <<cmpVars, colVars, storeVars, schedVars>>

notSchedVars == <<cmpVars, colVars, storeVars, findVars>>

vars == <<cmpBase, cmpTarget, cmpNow, cmpFirst, cmpSecond, cmpSwapped,
          colCfg, colApi, colSnapshot,
          cluster, clock, pc, captured, outputDir, gitRepo, commitResult, readBack,
          travel, ioFails, quiet,
          findRepo, findResult,
          running, cancelFn, cronEntries, cronRunning, startPc, ctxDone, parentDone,
          stopDuring, failedLogged, inflight>>

(***************************************************************************)
(* Go values                                                               *)
(***************************************************************************)
EmptyFcn == [x \in {} |-> 0]

NilValue == [k |-> "nil"]                    \* a nil interface{}
NilMap == [k |-> "nilmap"]                   \* a nil map
GoMap(f) == [k |-> "map", m |-> f]           \* a non-nil map with entries f
GoInt(i) == [k |-> "int", n |-> i]           \* int (yaml.v3 decodes integers to int)
GoInt64(i) == [k |-> "int64", n |-> i]       \* int64 (the JSON decoder of client-go)
GoStr(s) == [k |-> "str", s |-> s]

\* A commit hash as a string: the commit it spells (its position in the object
\* store, 0 for none) and the number of hex characters of it that are given.
HashString(id, len) == [id |-> id, len |-> len]

EmptyHash == HashString(0, 0)                \* ""

\* Reading a nil map yields no entries; len of a nil map is 0.
MapEntries(v) == IF v.k = "map" THEN v.m ELSE EmptyFcn

\* v.(map[string]interface{}) succeeds for a map value, nil or not.
IsMap(v) == v.k \in {"map", "nilmap"}

\* reflect.DeepEqual: structural equality; a nil map differs from an empty one.
DeepEqual(a, b) == a = b

(***************************************************************************)
(* Strings as character sequences, ordered as Go orders strings (bytes).   *)
(***************************************************************************)
CharCode(c) ==
    CASE c = "-" -> 45 [] c = "/" -> 47 [] c = ":" -> 58
      [] c = "C" -> 67 [] c = "D" -> 68 [] c = "S" -> 83
      [] c = "_" -> 95
      [] c = "a" -> 97 [] c = "b" -> 98 [] c = "c" -> 99 [] c = "d" -> 100
      [] c = "k" -> 107 [] c = "m" -> 109 [] c = "n" -> 110 [] c = "s" -> 115
      [] c = "." -> 46 [] c = "e" -> 101 [] c = "l" -> 108 [] c = "r" -> 114
      [] c = "t" -> 116 [] c = "u" -> 117 [] c = "y" -> 121

RECURSIVE StrLess(_, _)
StrLess(a, b) ==
    IF b = <<>> THEN FALSE
    ELSE IF a = <<>> THEN TRUE
    ELSE IF Head(a) = Head(b) THEN StrLess(Tail(a), Tail(b))
    ELSE CharCode(Head(a)) < CharCode(Head(b))

(***************************************************************************)
(* pkg/types                                                               *)
(***************************************************************************)
FullName(r) ==
    IF r.Namespace = <<>>
    THEN r.Kind \o <<"/">> \o r.Name
    ELSE r.Namespace \o <<"/">> \o r.Kind \o <<"/">> \o r.Name

DriftAdded == "ADDED"
DriftRemoved == "REMOVED"
DriftModified == "MODIFIED"

\* DriftType is a string type: < on it is the byte order of the three constants.
DriftTypeLess(a, b) ==
    \/ a = DriftAdded /\ b \in {DriftModified, DriftRemoved}
    \/ a = DriftModified /\ b = DriftRemoved

(***************************************************************************)
(* pkg/analyzer                                                            *)
(***************************************************************************)
\* The keys a map holds, in the order one `range` over it visits them: Go leaves
\* the order open, ord is the order this run takes (a sequence over all keys).
RangeKeys(keys, ord) == SelectSeq(ord, LAMBDA k : k \in keys)

indexResources(resources) ==
    LET names == {FullName(resources[i]) : i \in 1..Len(resources)}
        last(n) == CHOOSE i \in 1..Len(resources) :
                      /\ FullName(resources[i]) = n
                      /\ \A j \in (i+1)..Len(resources) : FullName(resources[j]) # n
    IN [n \in names |-> resources[last(n)]]

RECURSIVE deepCompareMap(_, _, _, _)
RECURSIVE deepCompareKeys(_, _, _, _, _)

\* The loop over the keys without the descent into nested maps: two maps under
\* one key are compared whole.
RECURSIVE deepCompareKeysFlat(_, _, _, _, _)
deepCompareKeysFlat(prefix, base, target, keys, ord) ==
    IF keys = <<>> THEN <<>>
    ELSE
      LET k == Head(keys)
          path == prefix \o "." \o k
          b == MapEntries(base)
          t == MapEntries(target)
          here ==
            IF k \notin DOMAIN b
            THEN <<[Path |-> path, OldValue |-> NilValue, NewValue |-> t[k]]>>
            ELSE IF k \notin DOMAIN t
            THEN <<[Path |-> path, OldValue |-> b[k], NewValue |-> NilValue]>>
            ELSE IF ~DeepEqual(b[k], t[k])
            THEN <<[Path |-> path, OldValue |-> b[k], NewValue |-> t[k]]>>
            ELSE <<>>
      IN here \o deepCompareKeysFlat(prefix, base, target, Tail(keys), ord)

deepCompareKeys(prefix, base, target, keys, ord) ==
    IF keys = <<>> THEN <<>>
    ELSE
      LET k == Head(keys)
          path == prefix \o "." \o k
          b == MapEntries(base)
          t == MapEntries(target)
          here ==
            IF k \notin DOMAIN b
            THEN <<[Path |-> path, OldValue |-> NilValue, NewValue |-> t[k]]>>
            ELSE IF k \notin DOMAIN t
            THEN <<[Path |-> path, OldValue |-> b[k], NewValue |-> NilValue]>>
            ELSE IF IsMap(b[k]) /\ IsMap(t[k])
            THEN deepCompareMap(path, b[k], t[k], ord)
            ELSE IF ~DeepEqual(b[k], t[k])
            THEN <<[Path |-> path, OldValue |-> b[k], NewValue |-> t[k]]>>
            ELSE <<>>
      IN here \o deepCompareKeys(prefix, base, target, Tail(keys), ord)

deepCompareMap(prefix, base, target, ord) ==
    IF base.k = "nilmap" /\ target.k = "nilmap" THEN <<>>
    ELSE
      LET allKeys == DOMAIN MapEntries(base) \cup DOMAIN MapEntries(target)
      IN deepCompareKeys(prefix, base, target, RangeKeys(allKeys, ord), ord)

\* compareResources with the labels compared only when base has labels at all.
compareResourcesNilGuard(base, target, ord) ==
    LET labels ==
          IF base.Labels.k # "nilmap" /\ ~DeepEqual(base.Labels, target.Labels)
          THEN <<[Path |-> ".metadata.labels",
                  OldValue |-> base.Labels, NewValue |-> target.Labels]>>
          ELSE <<>>
        spec ==
          IF ~DeepEqual(base.Spec, target.Spec)
          THEN deepCompareMap(".spec", base.Spec, target.Spec, ord)
          ELSE <<>>
    IN labels \o spec

compareResources(base, target, ord) ==
    LET labels ==
          IF ~DeepEqual(base.Labels, target.Labels)
          THEN <<[Path |-> ".metadata.labels",
                  OldValue |-> base.Labels, NewValue |-> target.Labels]>>
          ELSE <<>>
        annotations ==
          IF ~DeepEqual(base.Annotations, target.Annotations)
          THEN <<[Path |-> ".metadata.annotations",
                  OldValue |-> base.Annotations, NewValue |-> target.Annotations]>>
          ELSE <<>>
        spec ==
          IF ~DeepEqual(base.Spec, target.Spec)
          THEN deepCompareMap(".spec", base.Spec, target.Spec, ord)
          ELSE <<>>
        data ==
          IF ~DeepEqual(base.Data, target.Data)
          THEN deepCompareMap(".data", base.Data, target.Data, ord)
          ELSE <<>>
    IN labels \o annotations \o spec \o data

\* The less function handed to sort.Slice.
EntryLess(x, y) ==
    IF x.Type # y.Type
    THEN DriftTypeLess(x.Type, y.Type)
    ELSE StrLess(FullName(x.Resource), FullName(y.Resource))

\* A sort whose less function looks at the full name only.
RECURSIVE SortByNameOnly(_)
SortByNameOnly(entries) ==
    IF entries = {} THEN <<>>
    ELSE LET min == CHOOSE x \in entries :
                       \A y \in entries \ {x} :
                           StrLess(FullName(x.Resource), FullName(y.Resource))
         IN <<min>> \o SortByNameOnly(entries \ {min})

\* sort.Slice over entries that differ pairwise in (Type, FullName): whatever
\* order the three range loops appended them in, the result is the one
\* sequence that is ascending under EntryLess.
RECURSIVE SortEntries(_)
SortEntries(entries) ==
    IF entries = {} THEN <<>>
    ELSE LET min == CHOOSE x \in entries : \A y \in entries \ {x} : EntryLess(x, y)
         IN <<min>> \o SortEntries(entries \ {min})

\* A count that does not look at the kind.
CountAnyType(entries, type) == Len(entries)

CountType(entries, type) ==
    Cardinality({i \in 1..Len(entries) : entries[i].Type = type})

Compare(base, target, ord, now) ==
    LET baseIndex == indexResources(base.Resources)
        targetIndex == indexResources(target.Resources)
        removed == {[Type |-> DriftRemoved, Resource |-> baseIndex[n], FieldDiffs |-> <<>>] :
                      n \in DOMAIN baseIndex \ DOMAIN targetIndex}
        added == {[Type |-> DriftAdded, Resource |-> targetIndex[n], FieldDiffs |-> <<>>] :
                      n \in DOMAIN targetIndex \ DOMAIN baseIndex}
        both == {n \in DOMAIN baseIndex \cap DOMAIN targetIndex :
                      Len(compareResources(baseIndex[n], targetIndex[n], ord)) > 0}
        modified == {[Type |-> DriftModified, Resource |-> targetIndex[n],
                      FieldDiffs |-> compareResources(baseIndex[n], targetIndex[n], ord)] :
                      n \in both}
        entries == SortEntries(removed \cup added \cup modified)
        nAdded == CountType(entries, DriftAdded)
        nRemoved == CountType(entries, DriftRemoved)
        nModified == CountType(entries, DriftModified)
    IN [Timestamp |-> now,
        BaseRef |-> base.Metadata.CommitHash,
        TargetRef |-> target.Metadata.CommitHash,
        Summary |-> [TotalResources |-> Cardinality(DOMAIN targetIndex),
                     AddedResources |-> nAdded,
                     RemovedResources |-> nRemoved,
                     ModifiedResources |-> nModified,
                     UnchangedResources |->
                         Cardinality(DOMAIN baseIndex) - nRemoved - nModified],
        Entries |-> entries]

(***************************************************************************)
(* pkg/collector                                                           *)
(***************************************************************************)
\* obj[k] on a map[string]interface{}: the nil interface when k is absent.
GetField(obj, k) ==
    IF k \in DOMAIN MapEntries(obj) THEN MapEntries(obj)[k] ELSE NilValue

\* delete(obj, k)
DeleteKey(obj, k) ==
    IF obj.k = "map"
    THEN GoMap([x \in DOMAIN obj.m \ {k} |-> obj.m[x]])
    ELSE obj

\* if metadata, ok := obj["metadata"].(map[string]interface{}); ok { delete(metadata, k) }
DeleteMetadataKey(obj, k) ==
    IF "metadata" \in DOMAIN MapEntries(obj) /\ IsMap(obj.m["metadata"])
    THEN GoMap([obj.m EXCEPT !["metadata"] = DeleteKey(@, k)])
    ELSE obj

\* One iteration of the loop of stripFields: the switch on the configured path.
stripField(obj, field) ==
    CASE field = ".metadata.managedFields" -> DeleteMetadataKey(obj, "managedFields")
      [] field = ".metadata.resourceVersion" -> DeleteMetadataKey(obj, "resourceVersion")
      [] field = ".metadata.uid" -> DeleteMetadataKey(obj, "uid")
      [] field = ".metadata.generation" -> DeleteMetadataKey(obj, "generation")
      [] field = ".status" -> DeleteKey(obj, "status")
      [] OTHER -> obj

RECURSIVE stripFields(_, _)
stripFields(obj, fields) ==
    IF fields = <<>> THEN obj
    ELSE stripFields(stripField(obj, Head(fields)), Tail(fields))

\* unstructured.NestedString(obj, "metadata", k): "" unless a string is there.
MetadataString(obj, k) ==
    LET md == GetField(obj, "metadata")
    IN IF IsMap(md) /\ GetField(md, k).k = "str" THEN GetField(md, k).s ELSE <<>>

\* unstructured.NestedStringMap(obj, "metadata", k): nil unless a map is there.
MetadataStringMap(obj, k) ==
    LET md == GetField(obj, "metadata")
    IN IF IsMap(md) /\ GetField(md, k).k = "map" THEN GetField(md, k) ELSE NilMap

TopString(obj, k) == IF GetField(obj, k).k = "str" THEN GetField(obj, k).s ELSE <<>>

NoisyAnnotations ==
    {"kubectl.kubernetes.io/last-applied-configuration",
     "deployment.kubernetes.io/revision"}

cleanAnnotations(annotations) ==
    IF annotations.k = "nilmap" THEN NilMap
    ELSE LET kept == DOMAIN annotations.m \ NoisyAnnotations
         IN IF kept = {} THEN NilMap
            ELSE GoMap([x \in kept |-> annotations.m[x]])

\* The body of the loop of collectResource, for one item of the list.
collectItem(item, cfg) ==
    LET obj == stripFields(item, cfg.StripFields)
    IN [APIVersion |-> TopString(obj, "apiVersion"),
        Kind |-> TopString(obj, "kind"),
        Namespace |-> MetadataString(obj, "namespace"),
        Name |-> MetadataString(obj, "name"),
        Labels |-> MetadataStringMap(obj, "labels"),
        Annotations |-> cleanAnnotations(MetadataStringMap(obj, "annotations")),
        Spec |-> IF GetField(obj, "spec").k = "map" THEN GetField(obj, "spec") ELSE NilMap,
        Data |-> IF GetField(obj, "data").k = "map" THEN GetField(obj, "data") ELSE NilMap,
        Raw |-> obj]

collectResource(items, cfg) == [i \in 1..Len(items) |-> collectItem(items[i], cfg)]

\* The friendly names resourceMapping knows.
resourceMapping ==
    {"deployments", "statefulsets", "daemonsets", "services", "configmaps", "secrets",
     "persistentvolumeclaims", "serviceaccounts", "ingresses", "networkpolicies",
     "cronjobs", "roles", "rolebindings", "clusterroles", "clusterrolebindings"}

SeqToSet(q) == {q[i] : i \in 1..Len(q)}

shouldExcludeNamespace(cfg, ns) == ns \in SeqToSet(cfg.ExcludeNamespaces)

shouldIncludeNamespace(cfg, ns) == ns \in SeqToSet(cfg.Namespaces)

\* A filter that lets cluster-scoped objects through whatever the allow-list.
keptOfOrClusterScoped(resources, cfg) ==
    SelectSeq(resources, LAMBDA res :
        /\ ~shouldExcludeNamespace(cfg, res.Namespace)
        /\ \/ res.Namespace = <<>>
           \/ ~(Len(cfg.Namespaces) > 0 /\ ~shouldIncludeNamespace(cfg, res.Namespace)))

\* The resources Collect keeps of one listed kind.
keptOf(resources, cfg) ==
    SelectSeq(resources, LAMBDA res :
        /\ ~shouldExcludeNamespace(cfg, res.Namespace)
        /\ ~(Len(cfg.Namespaces) > 0 /\ ~shouldIncludeNamespace(cfg, res.Namespace)))

\* A loop that gives up at the first kind whose List call fails.
RECURSIVE collectTypesAbort(_, _, _)
collectTypesAbort(types, cfg, api) ==
    IF types = <<>> THEN <<>>
    ELSE LET resType == Head(types)
         IN IF resType \notin resourceMapping THEN collectTypesAbort(Tail(types), cfg, api)
            ELSE IF resType \in api.Fails THEN <<>>
            ELSE keptOf(collectResource(api.Items[resType], cfg), cfg)
                 \o collectTypesAbort(Tail(types), cfg, api)

\* The loop of Collect over the configured resource types.
RECURSIVE collectTypes(_, _, _)
collectTypes(types, cfg, api) ==
    IF types = <<>> THEN <<>>
    ELSE LET resType == Head(types)
             rest == collectTypes(Tail(types), cfg, api)
         IN IF resType \notin resourceMapping THEN rest
            ELSE IF resType \in api.Fails THEN rest
            ELSE keptOf(collectResource(api.Items[resType], cfg), cfg) \o rest

\* getClusterName: the cluster of the kubeconfig context.
getClusterName(cfg) == cfg.Cluster

\* Collect.  now is the reading of time.Now(); nsOrd is the order in which the
\* range over namespacesSet visits its keys.
Collect(cfg, api, now, nsOrd) ==
    LET resources == collectTypes(cfg.ResourceTypes, cfg, api)
        namespacesSet == {resources[i].Namespace : i \in 1..Len(resources)} \ {<<>>}
    IN [Metadata |-> [Timestamp |-> now,
                      ClusterName |-> getClusterName(cfg),
                      Context |-> cfg.Context,
                      ResourceCount |-> Len(resources),
                      Namespaces |-> RangeKeys(namespacesSet, nsOrd),
                      CommitHash |-> EmptyHash],
        Resources |-> resources]

(***************************************************************************)
(* pkg/config                                                              *)
(***************************************************************************)
KubeSystem == <<"k","u","b","e","-","s","y","s","t","e","m">>

KubePublic == <<"k","u","b","e","-","p","u","b","l","i","c">>

KubeNodeLease == <<"k","u","b","e","-","n","o","d","e","-","l","e","a","s","e">>

DefaultStripFields ==
    <<".metadata.managedFields", ".metadata.resourceVersion", ".metadata.uid",
      ".metadata.generation", ".status">>

DefaultConfig ==
    [Cluster |-> "", Context |-> "",
     ResourceTypes |-> <<"deployments", "statefulsets", "daemonsets", "services",
                         "configmaps", "secrets", "ingresses", "networkpolicies",
                         "persistentvolumeclaims", "serviceaccounts", "cronjobs",
                         "roles", "rolebindings">>,
     Namespaces |-> <<>>,
     ExcludeNamespaces |-> <<KubeSystem, KubePublic, KubeNodeLease>>,
     StripFields |-> DefaultStripFields]

(***************************************************************************)
(* YAML (gopkg.in/yaml.v3), as the snapshot store uses it                  *)
(***************************************************************************)
\* yaml.Marshal of a value: the document keeps no Go type, so int and int64
\* give the same scalar and a nil map the same empty mapping as an empty one.
RECURSIVE YamlOf(_)
YamlOf(v) ==
    CASE v.k \in {"int", "int64"} -> [k |-> "yint", n |-> v.n]
      [] v.k = "str" -> [k |-> "ystr", s |-> v.s]
      [] v.k = "map" -> [k |-> "ymap", m |-> [x \in DOMAIN v.m |-> YamlOf(v.m[x])]]
      [] v.k = "nilmap" -> [k |-> "ymap", m |-> EmptyFcn]
      [] v.k = "nil" -> [k |-> "ynull"]

\* yaml.Unmarshal into an interface{}.
RECURSIVE FromYaml(_)
FromYaml(y) ==
    CASE y.k = "yint" -> GoInt(y.n)
      [] y.k = "ystr" -> GoStr(y.s)
      [] y.k = "ymap" -> GoMap([x \in DOMAIN y.m |-> FromYaml(y.m[x])])
      [] y.k = "ynull" -> NilValue

\* A field tagged omitempty is left out when its map has no entries.
OmitEmpty(key, v) ==
    IF DOMAIN MapEntries(v) = {} THEN EmptyFcn ELSE key :> YamlOf(v)

\* yaml.Marshal(resource): the tagged fields of types.Resource; Raw is yaml:"-".
MarshalResource(r) ==
    [k |-> "ymap",
     m |-> ("apiVersion" :> YamlOf(GoStr(r.APIVersion)))
           @@ ("kind" :> YamlOf(GoStr(r.Kind)))
           @@ ("namespace" :> YamlOf(GoStr(r.Namespace)))
           @@ ("name" :> YamlOf(GoStr(r.Name)))
           @@ OmitEmpty("labels", r.Labels)
           @@ OmitEmpty("annotations", r.Annotations)
           @@ OmitEmpty("spec", r.Spec)
           @@ OmitEmpty("data", r.Data)]

\* Decoding the key of a document into a string field / a map field of a
\* struct: an absent or null key leaves the zero value.
StringField(doc, key) ==
    IF key \in DOMAIN doc.m /\ doc.m[key].k = "ystr" THEN doc.m[key].s ELSE <<>>

MapField(doc, key) ==
    IF key \in DOMAIN doc.m /\ doc.m[key].k = "ymap" THEN FromYaml(doc.m[key]) ELSE NilMap

\* yaml.Unmarshal(data, &resource) fails when a key holds a node of another
\* kind than its field.
ResourceDecodes(doc) ==
    /\ doc.k = "ymap"
    /\ \A key \in DOMAIN doc.m \cap {"apiVersion", "kind", "namespace", "name"} :
          doc.m[key].k \in {"ystr", "ynull"}
    /\ \A key \in DOMAIN doc.m \cap {"labels", "annotations", "spec", "data"} :
          doc.m[key].k \in {"ymap", "ynull"}

\* yaml.Unmarshal(data, &resource): the keys the struct has tags for; every
\* other key of the document is ignored.
UnmarshalResource(doc) ==
    [APIVersion |-> StringField(doc, "apiVersion"),
     Kind |-> StringField(doc, "kind"),
     Namespace |-> StringField(doc, "namespace"),
     Name |-> StringField(doc, "name"),
     Labels |-> MapField(doc, "labels"),
     Annotations |-> MapField(doc, "annotations"),
     Spec |-> MapField(doc, "spec"),
     Data |-> MapField(doc, "data"),
     Raw |-> NilMap]

(***************************************************************************)
(* pkg/snapshotter: the tree under the output directory                    *)
(*   Meta  = <<>> or <<the document of _metadata.yaml>>                    *)
(*   Files = the resource files, <<directory, kind directory, file>> to    *)
(*           the document in each                                          *)
(***************************************************************************)
EmptyTree == [Meta |-> <<>>, Files |-> EmptyFcn]

ToLower(c) ==
    CASE c = "C" -> "c" [] c = "D" -> "d" [] c = "S" -> "s" [] OTHER -> c

ReplacedChars == {"/", "\\", ":", "*", "?", "\"", "<", ">", "|"}

sanitizeFilename(name) ==
    [i \in 1..Len(name) |-> IF name[i] \in ReplacedChars THEN "_" ELSE name[i]]

YamlSuffix == <<".", "y", "a", "m", "l">>

ClusterDir == <<"_", "c", "l", "u", "s", "t", "e", "r">>

\* The path writeResource gives a resource.
filePath(resource) ==
    <<IF resource.Namespace = <<>> THEN ClusterDir ELSE resource.Namespace,
      [i \in 1..Len(resource.Kind) |-> ToLower(resource.Kind[i])],
      sanitizeFilename(resource.Name) \o YamlSuffix>>

writeResource(tree, resource) ==
    LET data == IF resource.Raw # NilMap THEN YamlOf(resource.Raw)
                ELSE MarshalResource(resource)
    IN [tree EXCEPT !.Files = (filePath(resource) :> data) @@ @]

\* yaml.Marshal(snapshot.Metadata) into _metadata.yaml; commitHash is omitempty.
writeMetadata(tree, snapshot) ==
    [tree EXCEPT !.Meta = <<[Timestamp |-> snapshot.Metadata.Timestamp,
                             ClusterName |-> snapshot.Metadata.ClusterName,
                             Context |-> snapshot.Metadata.Context,
                             ResourceCount |-> snapshot.Metadata.ResourceCount,
                             Namespaces |-> snapshot.Metadata.Namespaces,
                             CommitHash |-> snapshot.Metadata.CommitHash]>>]

\* Everything but .git is removed.
cleanNothing(tree) == tree

\* cleanDirectory: every entry of the root but .git is removed with RemoveAll;
\* the tree holds the entries other than .git, the repository is apart.
cleanDirectory(tree) == EmptyTree

RECURSIVE writeResources(_, _)
writeResources(tree, resources) ==
    IF resources = <<>> THEN tree
    ELSE writeResources(writeResource(tree, Head(resources)), Tail(resources))

\* A file system that refuses nothing.
NoFails == [meta |-> FALSE, paths |-> {}]

\* Write: [tree, err].  The directory is cleaned; a metadata file that cannot
\* be written ends the write with an error; a resource whose file cannot be
\* written is logged and skipped, and the write still returns nil.
WriteWith(tree, snapshot, fails) ==
    IF fails.meta
    THEN [tree |-> cleanDirectory(tree), err |-> "failed to write metadata"]
    ELSE [tree |-> writeResources(writeMetadata(cleanDirectory(tree), snapshot),
                                  SelectSeq(snapshot.Resources,
                                            LAMBDA r : filePath(r) \notin fails.paths)),
          err |-> ""]

\* Write on a file system that refuses nothing.
Write(tree, snapshot) == WriteWith(tree, snapshot, NoFails).tree

\* filepath.Walk visits the entries of a directory in lexical order.
PathLess(p, q) ==
    \/ StrLess(p[1], q[1])
    \/ p[1] = q[1] /\ StrLess(p[2], q[2])
    \/ p[1] = q[1] /\ p[2] = q[2] /\ StrLess(p[3], q[3])

RECURSIVE WalkOrder(_)
WalkOrder(paths) ==
    IF paths = {} THEN <<>>
    ELSE LET first == CHOOSE p \in paths : \A q \in paths \ {p} : PathLess(p, q)
         IN <<first>> \o WalkOrder(paths \ {first})

\* strings.HasSuffix(info.Name(), ".yaml"): the files the walk of Read opens.
ManifestPaths(tree) ==
    {p \in DOMAIN tree.Files :
        /\ Len(p[3]) >= Len(YamlSuffix)
        /\ SubSeq(p[3], Len(p[3]) - Len(YamlSuffix) + 1, Len(p[3])) = YamlSuffix}

\* Read: [err, snapshot].  The metadata comes from _metadata.yaml, the count is
\* recomputed, and every other .yaml file is decoded into a types.Resource.
Read(tree) ==
    IF tree.Meta = <<>> THEN [err |-> "failed to read metadata", snapshot |-> <<>>]
    ELSE IF \E p \in ManifestPaths(tree) : ~ResourceDecodes(tree.Files[p])
    THEN [err |-> "failed to read snapshot", snapshot |-> <<>>]
    ELSE LET order == WalkOrder(ManifestPaths(tree))
             resources == [i \in 1..Len(order) |-> UnmarshalResource(tree.Files[order[i]])]
         IN [err |-> "",
             snapshot |-> <<[Metadata |-> [tree.Meta[1] EXCEPT
                                              !.ResourceCount = Len(resources)],
                             Resources |-> resources]>>]

(***************************************************************************)
(* pkg/versioner: the repository in the output directory                   *)
(*   Commits  = the commit objects, in the order they were created; a      *)
(*              commit is known by its position                            *)
(*   Branch   = the commit the configured branch points at, 0 while the    *)
(*              branch is unborn                                           *)
(*   Detached = HEAD holds a commit (HeadAt) and not the branch            *)
(*   Index    = the staged tree                                            *)
(***************************************************************************)
EmptyRepo ==
    [Commits |-> <<>>, Branch |-> 0, Detached |-> FALSE, HeadAt |-> 0,
     Index |-> EmptyTree]

HeadCommit(repo) == IF repo.Detached THEN repo.HeadAt ELSE repo.Branch

TreeOf(repo, id) == IF id = 0 THEN EmptyTree ELSE repo.Commits[id].Tree

FullHashLen == 40

\* A Commit that commits whether or not anything changed.
commitAlways(repo, worktree, metadata) ==
    LET id == Len(repo.Commits) + 1
    IN [repo |-> [repo EXCEPT !.Index = worktree,
                              !.Commits = Append(@, [Parent |-> HeadCommit(repo),
                                                     When |-> metadata.Timestamp,
                                                     ResourceCount |-> metadata.ResourceCount,
                                                     NamespaceCount |-> Len(metadata.Namespaces),
                                                     Tree |-> worktree]),
                              !.Branch = IF repo.Detached THEN @ ELSE id,
                              !.HeadAt = IF repo.Detached THEN id ELSE @],
        hash |-> HashString(id, FullHashLen)]

\* Commit: [repo, hash].  Everything is staged; a status that is clean skips
\* the commit and returns "", otherwise the commit is made on HEAD, with the
\* timestamp of the metadata as its author time.
Commit(repo, worktree, metadata) ==
    LET staged == [repo EXCEPT !.Index = worktree]
        id == Len(repo.Commits) + 1
        commit == [Parent |-> HeadCommit(repo),
                   When |-> metadata.Timestamp,
                   ResourceCount |-> metadata.ResourceCount,
                   NamespaceCount |-> Len(metadata.Namespaces),
                   Tree |-> worktree]
    IN IF worktree = TreeOf(repo, HeadCommit(repo))
       THEN [repo |-> staged, hash |-> EmptyHash]
       ELSE [repo |-> [staged EXCEPT !.Commits = Append(@, commit),
                                     !.Branch = IF repo.Detached THEN @ ELSE id,
                                     !.HeadAt = IF repo.Detached THEN id ELSE @],
             hash |-> HashString(id, FullHashLen)]

\* Commit up to an error after AddWithOptions: of Status, of Worktree.Commit or
\* of CommitObject, or the end of the process.  The index go-git wrote stays
\* as staged; nothing in Commit restores it.
CommitInterrupted(repo, worktree) == [repo EXCEPT !.Index = worktree]

\* repo.Log: the commits reachable from HEAD, HEAD's first.
RECURSIVE LogFrom(_, _)
LogFrom(repo, id) ==
    IF id = 0 THEN <<>> ELSE <<id>> \o LogFrom(repo, repo.Commits[id].Parent)

Log(repo) == LogFrom(repo, HeadCommit(repo))

\* A scan that keeps the first commit of the log that is not after the target.
RECURSIVE scanFirstMatch(_, _, _, _)
scanFirstMatch(repo, log, target, best) ==
    IF log = <<>> THEN best
    ELSE LET commitTime == repo.Commits[Head(log)].When
             next == IF commitTime <= target /\ best = 0 THEN Head(log) ELSE best
         IN scanFirstMatch(repo, Tail(log), target, next)

\* The callback of FindCommitByTime over the log: the best commit so far is
\* replaced by one that is not after the target and strictly later than it.
RECURSIVE scanBest(_, _, _, _)
scanBest(repo, log, target, best) ==
    IF log = <<>> THEN best
    ELSE LET commitTime == repo.Commits[Head(log)].When
             next == IF commitTime <= target
                        /\ (best = 0 \/ commitTime > repo.Commits[best].When)
                     THEN Head(log) ELSE best
         IN scanBest(repo, Tail(log), target, next)

\* FindCommitByTime: [hash, err].
FindCommitByTime(repo, target) ==
    IF HeadCommit(repo) = 0 THEN [hash |-> EmptyHash, err |-> "failed to get log"]
    ELSE LET best == scanBest(repo, Log(repo), target, 0)
         IN IF best = 0 THEN [hash |-> EmptyHash, err |-> "no snapshot found"]
            ELSE [hash |-> HashString(best, FullHashLen), err |-> ""]

\* History: the log from HEAD as HistoryEntry values, at most limit of them
\* when limit > 0.  The message is kept by its parts, '<prefix> <timestamp> --
\* <N> resources across <M> namespaces'; ResourceCount is not assigned and
\* keeps the zero value of its type.
History(repo, limit) ==
    LET log == Log(repo)
        n == IF limit > 0 /\ limit < Len(log) THEN limit ELSE Len(log)
    IN [i \in 1..n |->
          [CommitHash |-> HashString(log[i], FullHashLen),
           Timestamp |-> repo.Commits[log[i]].When,
           Message |-> [Timestamp |-> repo.Commits[log[i]].When,
                        ResourceCount |-> repo.Commits[log[i]].ResourceCount,
                        NamespaceCount |-> repo.Commits[log[i]].NamespaceCount],
           ResourceCount |-> 0]]

\* GetCommitCount: a repository without commits counts 0.
GetCommitCount(repo) == Len(Log(repo))

\* go-git's check before a merge reset: a tracked file that is modified or
\* deleted in the working tree; untracked files do not count.
UnstagedChanges(repo, worktree) ==
    \/ repo.Index.Meta # <<>> /\ worktree.Meta # repo.Index.Meta
    \/ \E p \in DOMAIN repo.Index.Files :
          p \notin DOMAIN worktree.Files \/ worktree.Files[p] # repo.Index.Files[p]

\* Worktree.Reset in merge mode to the commit id: [repo, worktree, err].
Reset(repo, worktree, id) ==
    IF UnstagedChanges(repo, worktree)
    THEN [repo |-> repo, worktree |-> worktree, err |-> "worktree contains unstaged changes"]
    ELSE LET tree == TreeOf(repo, id)
             untracked == DOMAIN worktree.Files \ DOMAIN repo.Index.Files
         IN [repo |-> [repo EXCEPT !.Index = tree],
             worktree |-> [Meta |-> IF tree.Meta = <<>> /\ repo.Index.Meta = <<>>
                                    THEN worktree.Meta ELSE tree.Meta,
                           Files |-> tree.Files @@ [p \in untracked |-> worktree.Files[p]]],
             err |-> ""]

\* plumbing.NewHash names a commit only when all its characters are given.
ResolvesToCommit(repo, commitHash) ==
    commitHash.len = FullHashLen /\ commitHash.id \in 1..Len(repo.Commits)

\* CheckoutAt: Worktree.Checkout by hash looks the commit up, points HEAD at
\* it, and only then resets the index and the working tree.
CheckoutAt(repo, worktree, commitHash) ==
    IF ~ResolvesToCommit(repo, commitHash)
    THEN [repo |-> repo, worktree |-> worktree, err |-> "object not found"]
    ELSE Reset([repo EXCEPT !.Detached = TRUE, !.HeadAt = commitHash.id],
               worktree, commitHash.id)

\* CheckoutBranch: Worktree.Checkout of the configured branch.
CheckoutBranch(repo, worktree) ==
    IF repo.Branch = 0
    THEN [repo |-> repo, worktree |-> worktree, err |-> "reference not found"]
    ELSE Reset([repo EXCEPT !.Detached = FALSE], worktree, repo.Branch)

(***************************************************************************)
(* pkg/timetravel                                                          *)
(***************************************************************************)
LogPrefixLen == 8

\* SnapshotByCommit: [repo, worktree, snapshot, err].  commitHash[:8] panics on
\* a shorter string; the deferred CheckoutBranch exists only once CheckoutAt
\* has returned nil, and its own error is only logged.
SnapshotByCommit(repo, worktree, commitHash) ==
    IF commitHash.len < LogPrefixLen
    THEN [repo |-> repo, worktree |-> worktree, snapshot |-> <<>>, err |-> "panic"]
    ELSE LET at == CheckoutAt(repo, worktree, commitHash)
             read == Read(at.worktree)
             back == CheckoutBranch(at.repo, at.worktree)
         IN IF at.err # ""
            THEN [repo |-> at.repo, worktree |-> at.worktree, snapshot |-> <<>>,
                  err |-> "failed to checkout commit"]
            ELSE IF read.err # ""
            THEN [repo |-> back.repo, worktree |-> back.worktree, snapshot |-> <<>>,
                  err |-> "failed to read snapshot at commit"]
            ELSE [repo |-> back.repo, worktree |-> back.worktree,
                  snapshot |-> <<[read.snapshot[1] EXCEPT
                                     !.Metadata.CommitHash = commitHash]>>,
                  err |-> ""]

\* SnapshotAt: FindCommitByTime, then SnapshotByCommit.
SnapshotAt(repo, worktree, target) ==
    LET found == FindCommitByTime(repo, target)
    IN IF found.err # ""
       THEN [repo |-> repo, worktree |-> worktree, snapshot |-> <<>>,
             err |-> "failed to find snapshot"]
       ELSE SnapshotByCommit(repo, worktree, found.hash)

(***************************************************************************)
(* Components at rest, and helpers for the inputs of the runs              *)
(***************************************************************************)
SeqsUpTo(S, n) == UNION {[1..m -> S] : m \in 0..n}

\* The orders in which a range over a map with the keys S can visit them.
Orders(S) ==
    {ord \in [1..Cardinality(S) -> S] :
        \A i, j \in DOMAIN ord : i # j => ord[i] # ord[j]}

NoMetadata ==
    [Timestamp |-> 0, ClusterName |-> "", Context |-> "", ResourceCount |-> 0,
     Namespaces |-> <<>>, CommitHash |-> EmptyHash]

EmptyApi == [Items |-> [t \in resourceMapping |-> <<>>], Fails |-> {}]

IdleCompare ==
    /\ cmpBase = [Metadata |-> NoMetadata, Resources |-> <<>>]
    /\ cmpTarget = [Metadata |-> NoMetadata, Resources |-> <<>>]
    /\ cmpNow = 0
    /\ cmpFirst = <<>>
    /\ cmpSecond = <<>>
    /\ cmpSwapped = <<>>

IdleCollect == colCfg = DefaultConfig /\ colApi = EmptyApi /\ colSnapshot = <<>>

\* An output directory nothing was captured into yet: versioner.New finds no
\* repository there and initialises one, with HEAD on the unborn branch.
IdleStore ==
    /\ cluster = EmptyApi
    /\ clock = 0
    /\ pc = "idle"
    /\ captured = <<>>
    /\ outputDir = EmptyTree
    /\ gitRepo = EmptyRepo
    /\ commitResult = <<>>
    /\ readBack = <<>>
    /\ travel = <<>>
    /\ ioFails = NoFails
    /\ quiet = [runs |-> 0, base |-> 0]

IdleFind == findRepo = EmptyRepo /\ findResult = <<>>

MaxStarts == 2

StartCalls == 1..MaxStarts

\* The Scheduler that scheduler.New returns: not running, no cancel function,
\* a cron without jobs that is not started.
IdleSched ==
    /\ running = FALSE
    /\ cancelFn = 0
    /\ cronEntries = <<>>
    /\ cronRunning = FALSE
    /\ startPc = [i \in StartCalls |-> "uncalled"]
    /\ ctxDone = [i \in StartCalls |-> FALSE]
    /\ parentDone = FALSE
    /\ stopDuring = {}
    /\ failedLogged = FALSE
    /\ inflight = [i \in StartCalls |-> 0]

(***************************************************************************)
(* Analyzer runs: Compare applied to bounded snapshots.  A run calls       *)
(* Compare(base, target) and then calls it again on the same snapshots,    *)
(* either the same way round or swapped.                                   *)
(***************************************************************************)
MaxRes == 2          \* resources per snapshot handed to Compare

Res(ns, kind, name, labels, annotations, spec, data) ==
    [APIVersion |-> <<>>, Kind |-> kind, Namespace |-> ns, Name |-> name,
     Labels |-> labels, Annotations |-> annotations, Spec |-> spec, Data |-> data,
     Raw |-> NilMap]

SpecV1 == GoMap([replicas |-> GoInt(3), image |-> GoInt(1)])
SpecV2 == GoMap([replicas |-> GoInt(5), image |-> GoInt(2)])
EmptyMap == GoMap(EmptyFcn)

\* One namespaced resource in three states (two specs, and empty instead of nil
\* labels) and one cluster-scoped resource in two (nil and empty spec).
CmpResources ==
    { Res(<<"d">>, <<"D">>, <<"n">>, NilMap, NilMap, SpecV1, NilMap),
      Res(<<"d">>, <<"D">>, <<"n">>, NilMap, NilMap, SpecV2, NilMap),
      Res(<<"d">>, <<"D">>, <<"n">>, EmptyMap, NilMap, SpecV1, NilMap),
      Res(<<>>, <<"C">>, <<"a">>, GoMap([app |-> GoStr(<<"x">>)]), NilMap, NilMap, NilMap),
      Res(<<>>, <<"C">>, <<"a">>, GoMap([app |-> GoStr(<<"x">>)]), NilMap, EmptyMap, NilMap) }

CmpSnapshots ==
    {[Metadata |-> NoMetadata, Resources |-> rs] : rs \in SeqsUpTo(CmpResources, MaxRes)}

\* The keys of the maps that Compare ranges over (labels are compared whole).
FieldKeys == {"replicas", "image"}

RangeOrders == Orders(FieldKeys)

\* Every order a range over a map can take.
InitCompare ==
    /\ cmpBase \in CmpSnapshots
    /\ cmpTarget \in CmpSnapshots
    /\ cmpNow = 0
    /\ cmpFirst = <<>>
    /\ cmpSecond = <<>>
    /\ cmpSwapped = <<>>
    /\ IdleCollect
    /\ IdleStore
    /\ IdleFind
    /\ IdleSched

\* analyzer.New().Compare(base, target); time.Now() reads the clock.
CompareCall ==
    /\ cmpFirst = <<>>
    /\ \E ord \in RangeOrders :
          cmpFirst' = <<Compare(cmpBase, cmpTarget, ord, cmpNow)>>
    /\ UNCHANGED <<cmpBase, cmpTarget, cmpNow, cmpSecond, cmpSwapped, notCmpVars>>

\* The same call on the same two snapshots, a second time; the clock may have
\* moved on since it was last read.
CompareAgain ==
    /\ cmpFirst # <<>> /\ cmpSecond = <<>> /\ cmpSwapped = <<>>
    /\ \E ord \in RangeOrders, now \in {cmpNow, cmpNow + 1} :
          /\ cmpSecond' = <<Compare(cmpBase, cmpTarget, ord, now)>>
          /\ cmpNow' = now
    /\ UNCHANGED <<cmpBase, cmpTarget, cmpFirst, cmpSwapped, notCmpVars>>

\* analyzer.New().Compare(target, base): the same snapshots the other way round.
CompareSwappedCall ==
    /\ cmpFirst # <<>> /\ cmpSecond = <<>> /\ cmpSwapped = <<>>
    /\ \E ord \in RangeOrders, now \in {cmpNow, cmpNow + 1} :
          /\ cmpSwapped' = <<Compare(cmpTarget, cmpBase, ord, now)>>
          /\ cmpNow' = now
    /\ UNCHANGED <<cmpBase, cmpTarget, cmpFirst, cmpSecond, notCmpVars>>

NextCompare == CompareCall \/ CompareAgain \/ CompareSwappedCall

SpecCompare == InitCompare /\ [][NextCompare]_vars

(***************************************************************************)
(* Analyzer runs on one resource whose spec and data vary                  *)
(***************************************************************************)
NestedKeys == {"replicas", "template", "image"}

\* Values of spec: nil, empty, flat, nested one level, a map against a scalar
\* under one key, and an int64 (a live object) against an int (a read one).
FieldSpecs ==
    {NilMap,
     EmptyMap,
     GoMap([replicas |-> GoInt(3)]),
     GoMap([replicas |-> GoInt(5)]),
     GoMap([replicas |-> GoInt64(3)]),
     GoMap([replicas |-> GoInt(3), template |-> GoMap([image |-> GoInt(1)])]),
     GoMap([replicas |-> GoInt(3), template |-> GoMap([image |-> GoInt(2)])]),
     GoMap([replicas |-> GoInt(3),
            template |-> GoMap([image |-> GoInt(1), replicas |-> GoInt(1)])]),
     GoMap([replicas |-> GoInt(3), template |-> GoInt(1)])}

FieldDatas ==
    {NilMap, GoMap([image |-> GoStr(<<"a">>)]), GoMap([image |-> GoStr(<<"b">>)])}

FieldSnapshots ==
    {[Metadata |-> NoMetadata,
      Resources |-> <<Res(<<"d">>, <<"D">>, <<"n">>, NilMap, NilMap, spec, data)>>] :
        spec \in FieldSpecs, data \in FieldDatas}

InitFields ==
    /\ cmpBase \in FieldSnapshots
    /\ cmpTarget \in FieldSnapshots
    /\ cmpNow = 0
    /\ cmpFirst = <<>>
    /\ cmpSecond = <<>>
    /\ cmpSwapped = <<>>
    /\ IdleCollect
    /\ IdleStore
    /\ IdleFind
    /\ IdleSched

\* analyzer.New().Compare(base, target) on the two one-resource snapshots.
FieldCompareCall ==
    /\ cmpFirst = <<>>
    /\ \E ord \in Orders(NestedKeys) :
          cmpFirst' = <<Compare(cmpBase, cmpTarget, ord, cmpNow)>>
    /\ UNCHANGED <<cmpBase, cmpTarget, cmpNow, cmpSecond, cmpSwapped, notCmpVars>>

NextFields == FieldCompareCall

SpecFields == InitFields /\ [][NextFields]_vars

(***************************************************************************)
(* Collector runs: one Collect call on a listed cluster                    *)
(***************************************************************************)
MaxItems == 1

\* An object as the dynamic client returns it; every object the API server
\* serves carries uid, resourceVersion and creationTimestamp.
ApiObject(apiVersion, kind, ns, name, meta, top) ==
    GoMap(("apiVersion" :> GoStr(apiVersion)) @@ ("kind" :> GoStr(kind))
          @@ ("metadata" :> GoMap(("name" :> GoStr(name))
                                  @@ (IF ns = <<>> THEN EmptyFcn
                                      ELSE "namespace" :> GoStr(ns))
                                  @@ ("uid" :> GoStr(<<"u">>))
                                  @@ ("resourceVersion" :> GoStr(<<"7">>))
                                  @@ ("creationTimestamp" :> GoStr(<<"t">>))
                                  @@ meta))
          @@ top)

RestrictTo(f, keys) == [x \in keys |-> f[x]]

OptionalMeta ==
    [generation |-> GoInt64(2), managedFields |-> GoStr(<<"m">>)]

AnnotationChoices ==
    {EmptyFcn,
     "annotations" :> GoMap("deployment.kubernetes.io/revision" :> GoStr(<<"1">>)),
     "annotations" :> GoMap(("deployment.kubernetes.io/revision" :> GoStr(<<"1">>))
                            @@ ("owner" :> GoStr(<<"a">>)))}

StatusChoices ==
    {EmptyFcn, "status" :> GoMap("readyReplicas" :> GoInt64(3))}

ColObjects ==
    {ApiObject(<<"a">>, <<"D">>, ns, <<"n">>,
               RestrictTo(OptionalMeta, opt) @@ ann,
               ("spec" :> GoMap("replicas" :> GoInt64(3))) @@ st) :
        ns \in {<<"d">>, <<"m">>, KubeSystem},
        opt \in SUBSET DOMAIN OptionalMeta,
        ann \in AnnotationChoices,
        st \in StatusChoices}

ColApis ==
    {[Items |-> [t \in resourceMapping |-> IF t = "deployments" THEN items ELSE <<>>],
      Fails |-> {}] : items \in SeqsUpTo(ColObjects, MaxItems)}

ColConfigs ==
    {[DefaultConfig EXCEPT !.StripFields = f] :
        f \in {DefaultStripFields,
               DefaultStripFields \o <<".metadata.creationTimestamp">>,
               <<".status">>,
               <<>>}}

ColNamespaces == {<<"d">>, <<"m">>, KubeSystem}

ColClock == {1}

InitCollect ==
    /\ colCfg \in ColConfigs
    /\ colApi \in ColApis
    /\ colSnapshot = <<>>
    /\ IdleCompare
    /\ IdleStore
    /\ IdleFind
    /\ IdleSched

\* collector.New(cfg) followed by Collect(ctx).
CollectCall ==
    /\ colSnapshot = <<>>
    /\ \E now \in ColClock, nsOrd \in Orders(ColNamespaces) :
          colSnapshot' = <<Collect(colCfg, colApi, now, nsOrd)>>
    /\ UNCHANGED <<colCfg, colApi, notColVars>>

NextCollect == CollectCall

SpecCollect == InitCollect /\ [][NextCollect]_vars

(***************************************************************************)
(* Collector runs over several kinds and namespaces                        *)
(***************************************************************************)
\* The sublists of a list, in its order: an API list comes sorted by key.
RECURSIVE SubLists(_)
SubLists(q) ==
    IF q = <<>> THEN {<<>>}
    ELSE LET rest == SubLists(Tail(q))
         IN rest \cup {<<Head(q)>> \o r : r \in rest}

KindObject(kind, ns, name) ==
    ApiObject(<<"a">>, kind, ns, name, EmptyFcn, "spec" :> GoMap("replicas" :> GoInt64(3)))

KindApis ==
    {[Items |-> [t \in resourceMapping |->
                    CASE t = "deployments" -> deps
                      [] t = "services" -> svcs
                      [] t = "clusterroles" -> roles
                      [] OTHER -> <<>>],
      Fails |-> {}] :
        deps \in SubLists(<<KindObject(<<"D">>, <<"d">>, <<"n">>),
                            KindObject(<<"D">>, KubeSystem, <<"n">>),
                            KindObject(<<"D">>, <<"m">>, <<"n">>)>>),
        svcs \in SubLists(<<KindObject(<<"S">>, <<"d">>, <<"n">>),
                            KindObject(<<"S">>, <<"m">>, <<"n">>)>>),
        roles \in SubLists(<<KindObject(<<"C">>, <<>>, <<"a">>)>>)}

\* resource_types with one kind, several kinds, a kind named twice, a
\* cluster-scoped kind and a name the mapping does not know; with and without
\* an allow-list of namespaces.
KindConfigs ==
    {[DefaultConfig EXCEPT !.ResourceTypes = types, !.Namespaces = allow] :
        types \in {<<"deployments">>,
                   <<"deployments", "services">>,
                   <<"deployments", "deployments">>,
                   <<"services", "deployments", "clusterroles">>,
                   <<"pods", "deployments">>},
        allow \in {<<>>, <<<<"d">>>>, <<<<"d">>, KubeSystem>>}}

InitKinds ==
    /\ colCfg \in KindConfigs
    /\ colApi \in KindApis
    /\ colSnapshot = <<>>
    /\ IdleCompare
    /\ IdleStore
    /\ IdleFind
    /\ IdleSched

SpecKinds == InitKinds /\ [][NextCollect]_vars

\* The same clusters, with List calls that fail for some kinds.
FailingApis ==
    {[api EXCEPT !.Fails = fails] :
        api \in KindApis, fails \in SUBSET {"deployments", "services"}}

InitPartial ==
    /\ colCfg \in KindConfigs
    /\ colApi \in FailingApis
    /\ colSnapshot = <<>>
    /\ IdleCompare
    /\ IdleStore
    /\ IdleFind
    /\ IdleSched

SpecPartial == InitPartial /\ [][NextCollect]_vars

(***************************************************************************)
(* Capture runs and time travel on one output directory                    *)
(* (cmd/snapshot, cmd/drift, cmd/diff; one process at a time)              *)
(***************************************************************************)
MaxTime == 3

\* An object the cluster serves, with the given number of replicas.
Deployment(replicas) ==
    ApiObject(<<"a">>, <<"D">>, <<"d">>, <<"n">>,
              "generation" :> GoInt64(replicas),
              ("spec" :> GoMap("replicas" :> GoInt64(replicas)))
              @@ ("status" :> GoMap("readyReplicas" :> GoInt64(replicas))))

StoreClusters ==
    {[EmptyApi EXCEPT !.Items["deployments"] = items] :
        items \in {<<>>, <<Deployment(3)>>, <<Deployment(5)>>}}

StoreNamespaces == {<<"d">>}

\* The hashes a caller can hand to SnapshotByCommit: a full hash, of a commit
\* of the repository or not, and hashes cut to 8 and to 7 characters.
RequestedHashes(r) ==
    {HashString(id, FullHashLen) : id \in 1..(Len(r.Commits) + 1)}
    \cup {HashString(1, LogPrefixLen), HashString(1, LogPrefixLen - 1)}

Init ==
    /\ cluster \in StoreClusters
    /\ clock = 0
    /\ pc = "idle"
    /\ captured = <<>>
    /\ outputDir = EmptyTree
    /\ gitRepo = EmptyRepo
    /\ commitResult = <<>>
    /\ readBack = <<>>
    /\ travel = <<>>
    /\ ioFails = NoFails
    /\ quiet = [runs |-> 0, base |-> 0]
    /\ IdleCompare
    /\ IdleCollect
    /\ IdleFind
    /\ IdleSched

\* Resources are created, changed or deleted in the cluster.
ClusterChange ==
    /\ pc = "idle"
    /\ \E c \in StoreClusters \ {cluster} : cluster' = c
    /\ quiet' = [runs |-> 0, base |-> GetCommitCount(gitRepo)]
    /\ UNCHANGED <<ioFails, clock, pc, captured, outputDir, gitRepo, commitResult, readBack, travel,
                   notStoreVars>>

\* snapshot: collector.New(cfg).Collect(ctx).  Every run reads a later time.
SnapshotCollect ==
    /\ pc = "idle"
    /\ clock < MaxTime
    /\ clock' = clock + 1
    /\ \E nsOrd \in Orders(StoreNamespaces) :
          captured' = <<Collect(DefaultConfig, cluster, clock + 1, nsOrd)>>
    /\ pc' = "collected"
    /\ UNCHANGED <<ioFails, cluster, outputDir, gitRepo, commitResult, readBack, travel, quiet,
                   notStoreVars>>

\* snapshot: snapshotter.New(outputDir).Write(snapshot).
SnapshotWrite ==
    /\ pc = "collected"
    /\ LET done == WriteWith(outputDir, captured[1], ioFails)
       IN /\ outputDir' = done.tree
          /\ pc' = IF done.err = "" THEN "written" ELSE "idle"
    /\ readBack' = <<>>
    /\ travel' = <<>>
    /\ UNCHANGED <<ioFails, cluster, clock, captured, gitRepo, commitResult, quiet, notStoreVars>>

\* snapshot: versioner.New(cfg, outputDir) and Commit(&snapshot.Metadata).
SnapshotCommit ==
    /\ pc = "written"
    /\ LET done == Commit(gitRepo, outputDir, captured[1].Metadata)
       IN /\ gitRepo' = done.repo
          /\ commitResult' = <<done.hash>>
    /\ pc' = "idle"
    /\ quiet' = [quiet EXCEPT !.runs = IF @ < 2 THEN @ + 1 ELSE @]
    /\ UNCHANGED <<ioFails, cluster, clock, captured, outputDir, readBack, travel, notStoreVars>>

\* snapshot: the run ends after Write with the error of versioner.New or of
\* Commit before anything was staged.
SnapshotFailsAfterWrite ==
    /\ pc = "written"
    /\ pc' = "idle"
    /\ quiet' = [runs |-> 0, base |-> GetCommitCount(gitRepo)]
    /\ UNCHANGED <<ioFails, cluster, clock, captured, outputDir, gitRepo, commitResult, readBack,
                   travel, notStoreVars>>

\* drift, diff: snapshotter.New(outputDir).Read() of the tree as it is.
ReadCall ==
    /\ pc \in {"idle", "written"}
    /\ readBack = <<>>
    /\ readBack' = <<Read(outputDir)>>
    /\ UNCHANGED <<ioFails, cluster, clock, pc, captured, outputDir, gitRepo, commitResult, travel,
                   quiet, notStoreVars>>

\* diff --commit: timetravel.New(...).SnapshotByCommit(commitHash).
TravelByCommit ==
    /\ pc = "idle"
    /\ \E h \in RequestedHashes(gitRepo) :
          LET done == SnapshotByCommit(gitRepo, outputDir, h)
          IN /\ gitRepo' = done.repo
             /\ outputDir' = done.worktree
             /\ travel' = <<[hash |-> h, err |-> done.err, snapshot |-> done.snapshot]>>
    /\ captured' = <<>>
    /\ readBack' = <<>>
    /\ quiet' = [runs |-> 0, base |-> GetCommitCount(gitRepo')]
    /\ UNCHANGED <<ioFails, cluster, clock, pc, commitResult, notStoreVars>>

\* diff --from: timetravel.New(...).SnapshotAt(target).
TravelAt ==
    /\ pc = "idle"
    /\ \E target \in 0..MaxTime :
          LET done == SnapshotAt(gitRepo, outputDir, target)
          IN /\ gitRepo' = done.repo
             /\ outputDir' = done.worktree
             /\ travel' = <<[hash |-> FindCommitByTime(gitRepo, target).hash,
                             err |-> done.err, snapshot |-> done.snapshot]>>
    /\ captured' = <<>>
    /\ readBack' = <<>>
    /\ quiet' = [runs |-> 0, base |-> GetCommitCount(gitRepo')]
    /\ UNCHANGED <<ioFails, cluster, clock, pc, commitResult, notStoreVars>>

Next ==
    \/ ClusterChange
    \/ SnapshotCollect
    \/ SnapshotWrite
    \/ SnapshotCommit
    \/ SnapshotFailsAfterWrite
    \/ ReadCall
    \/ TravelByCommit
    \/ TravelAt

Spec == Init /\ [][Next]_vars

(***************************************************************************)
(* FindCommitByTime on the histories that captures can leave                *)
(***************************************************************************)
MaxHist == 3

\* The snapshot of the k-th capture of a history, taken at the time t: the
\* cluster alternates between two states, so that every capture is committed.
CaptureAt(k, t) ==
    Collect(DefaultConfig,
            [EmptyApi EXCEPT !.Items["deployments"] =
                <<Deployment(IF k % 2 = 1 THEN 3 ELSE 5)>>],
            t, <<<<"d">>>>)

\* The repository after the captures at the given times, each written and
\* committed; the wall clock may have been set back between two captures.
RECURSIVE RepoAfter(_)
RepoAfter(times) ==
    IF times = <<>> THEN EmptyRepo
    ELSE LET before == RepoAfter(SubSeq(times, 1, Len(times) - 1))
             snap == CaptureAt(Len(times), times[Len(times)])
         IN Commit(before, Write(EmptyTree, snap), snap.Metadata).repo

FindRepos == {RepoAfter(times) : times \in SeqsUpTo(1..MaxTime, MaxHist)}

InitFind ==
    /\ findRepo \in FindRepos
    /\ findResult = <<>>
    /\ IdleCompare
    /\ IdleCollect
    /\ IdleStore
    /\ IdleSched

\* versioner.FindCommitByTime(target)
FindCall ==
    /\ findResult = <<>>
    /\ \E target \in 0..(MaxTime + 1) :
          LET found == FindCommitByTime(findRepo, target)
          IN findResult' = <<[target |-> target, hash |-> found.hash, err |-> found.err]>>
    /\ UNCHANGED <<findRepo, notFindVars>>

NextFind == FindCall

SpecFind == InitFind /\ [][NextFind]_vars

(***************************************************************************)
(* Writes and reads on a directory that earlier runs left files in, on a   *)
(* file system that can refuse a write, with manifests damaged on disk     *)
(***************************************************************************)

\* A file that no snapshot produces.
StrayPath == <<<<"b", "a", "k">>, <<"d">>, <<"a">>>>

\* The content of a file that is not YAML, or not the YAML of a resource.
Damaged == [k |-> "ybad"]

DiskConfig == [DefaultConfig EXCEPT !.ResourceTypes = <<"deployments", "services", "clusterroles">>]

DiskSnapshots == {Collect(DiskConfig, api, 1, <<<<"d">>, <<"m">>>>) : api \in KindApis}

\* The directory before the write: a stray file, alone or next to the files
\* of an earlier write of every resource.
DiskDirs ==
    {[earlier EXCEPT !.Files = (StrayPath :> Damaged) @@ @] :
        earlier \in {EmptyTree}
                    \cup {Write(EmptyTree, s) : s \in {d \in DiskSnapshots : Len(d.Resources) = 5}}}

DiskFaults ==
    {[meta |-> meta, paths |-> paths] :
        meta \in BOOLEAN,
        paths \in SUBSET {filePath([Namespace |-> <<"d">>, Kind |-> <<"D">>, Name |-> <<"n">>]),
                          filePath([Namespace |-> <<"m">>, Kind |-> <<"S">>, Name |-> <<"n">>])}}

InitDisk ==
    /\ cluster = EmptyApi
    /\ clock = 1
    /\ pc = "collected"
    /\ captured \in {<<s>> : s \in DiskSnapshots}
    /\ outputDir \in DiskDirs
    /\ gitRepo = RepoAfter(<<1>>)
    /\ commitResult = <<>>
    /\ readBack = <<>>
    /\ travel = <<>>
    /\ ioFails \in DiskFaults
    /\ quiet = [runs |-> 0, base |-> 0]
    /\ IdleCompare
    /\ IdleCollect
    /\ IdleFind
    /\ IdleSched

\* A manifest of the directory is truncated or overwritten between the write
\* and a later read.
ManifestDamaged ==
    /\ pc = "written"
    /\ readBack = <<>>
    /\ \E p \in ManifestPaths(outputDir) :
          /\ outputDir.Files[p] # Damaged
          /\ outputDir' = [outputDir EXCEPT !.Files[p] = Damaged]
    /\ UNCHANGED <<ioFails, cluster, clock, pc, captured, gitRepo, commitResult, readBack, travel,
                   quiet, notStoreVars>>

NextDisk ==
    \/ SnapshotWrite
    \/ ManifestDamaged
    \/ ReadCall

SpecDisk == InitDisk /\ [][NextDisk]_vars

\* Clusters whose objects have names with characters that sanitizeFilename
\* replaces: the names of RBAC objects are path segments, so "a:b" and "a_b"
\* are both names of cluster roles.
PathApis ==
    {[Items |-> [t \in resourceMapping |->
                    CASE t = "deployments" -> deps
                      [] t = "services" -> svcs
                      [] t = "clusterroles" -> roles
                      [] OTHER -> <<>>],
      Fails |-> {}] :
        deps \in SubLists(<<KindObject(<<"D">>, <<"d">>, <<"n">>),
                            KindObject(<<"D">>, <<"m">>, <<"n">>)>>),
        svcs \in SubLists(<<KindObject(<<"S">>, <<"d">>, <<"n">>)>>),
        roles \in SubLists(<<KindObject(<<"C">>, <<>>, <<"a", ":", "b">>),
                             KindObject(<<"C">>, <<>>, <<"a", "_", "b">>),
                             KindObject(<<"C">>, <<>>, <<"a">>)>>)}

InitPaths ==
    /\ cluster = EmptyApi
    /\ clock = 1
    /\ pc = "collected"
    /\ captured \in {<<Collect(DiskConfig, api, 1, <<<<"d">>, <<"m">>>>)>> : api \in PathApis}
    /\ outputDir = EmptyTree
    /\ gitRepo = RepoAfter(<<1>>)
    /\ commitResult = <<>>
    /\ readBack = <<>>
    /\ travel = <<>>
    /\ ioFails = NoFails
    /\ quiet = [runs |-> 0, base |-> 0]
    /\ IdleCompare
    /\ IdleCollect
    /\ IdleFind
    /\ IdleSched

SpecPaths == InitPaths /\ [][NextDisk]_vars

\* history: versioner.History(limit); 0 asks for every entry.
HistoryCall ==
    /\ findResult = <<>>
    /\ \E limit \in 0..MaxHist :
          findResult' = <<[limit |-> limit, entries |-> History(findRepo, limit)]>>
    /\ UNCHANGED <<findRepo, notFindVars>>

SpecHistory == InitFind /\ [][HistoryCall]_vars

(***************************************************************************)
(* Commit after a write, on the histories that captures can leave: the     *)
(* wall clock may have been set back, so the written tree can be the tree  *)
(* of the head commit                                                      *)
(***************************************************************************)

InitCommit ==
    /\ cluster = EmptyApi
    /\ clock = MaxTime
    /\ pc = "written"
    /\ captured \in {<<CaptureAt(k, t)>> : k \in 1..2, t \in 1..MaxTime}
    /\ outputDir = Write(EmptyTree, captured[1])
    /\ gitRepo \in FindRepos
    /\ commitResult = <<>>
    /\ readBack = <<>>
    /\ travel = <<>>
    /\ ioFails = NoFails
    /\ quiet = [runs |-> 0, base |-> 0]
    /\ IdleCompare
    /\ IdleCollect
    /\ IdleFind
    /\ IdleSched

\* snapshot: Commit returns an error, or the process ends, after the staging.
SnapshotCommitFails ==
    /\ pc = "written"
    /\ gitRepo' = CommitInterrupted(gitRepo, outputDir)
    /\ pc' = "failed"
    /\ UNCHANGED <<ioFails, cluster, clock, captured, outputDir, commitResult, readBack, travel,
                   quiet, notStoreVars>>

NextCommit ==
    \/ SnapshotCommit
    \/ SnapshotCommitFails

SpecCommit == InitCommit /\ [][NextCommit]_vars

(***************************************************************************)
(* pkg/scheduler: Start calls, Stop, the cron's ticks and the handlers      *)
(***************************************************************************)
MaxInflight == 2

InflightTotal(f) == LET RECURSIVE sum(_)
                        sum(i) == IF i = 0 THEN 0 ELSE f[i] + sum(i - 1)
                    IN sum(MaxStarts)

InitSched ==
    /\ IdleSched
    /\ IdleCompare
    /\ IdleCollect
    /\ IdleStore
    /\ IdleFind

\* A Start that sets running without looking at it.
StartNoCheck(i) ==
    /\ startPc[i] = "uncalled"
    /\ startPc' = [startPc EXCEPT ![i] = "checked"]
    /\ running' = TRUE
    /\ UNCHANGED <<cancelFn, cronEntries, cronRunning, ctxDone, parentDone, inflight,
                   failedLogged, stopDuring, notSchedVars>>

\* Start, under mu: the running check, and running = true when it passes.
StartCheck(i) ==
    /\ startPc[i] = "uncalled"
    /\ IF running
       THEN startPc' = [startPc EXCEPT ![i] = "rejected"] /\ UNCHANGED running
       ELSE startPc' = [startPc EXCEPT ![i] = "checked"] /\ running' = TRUE
    /\ UNCHANGED <<cancelFn, cronEntries, cronRunning, ctxDone, parentDone, inflight,
                   failedLogged, stopDuring, notSchedVars>>

\* Start: context.WithCancel(ctx), s.cancelFn = cancel, cron.AddFunc of a
\* closure over the child context, cron.Start(); then it blocks on the context.
StartRegister(i) ==
    /\ startPc[i] = "checked"
    /\ ctxDone' = [ctxDone EXCEPT ![i] = parentDone]
    /\ cancelFn' = i
    /\ cronEntries' = Append(cronEntries, i)
    /\ cronRunning' = TRUE
    /\ startPc' = [startPc EXCEPT ![i] = "blocked"]
    /\ UNCHANGED <<running, parentDone, inflight, failedLogged, stopDuring, notSchedVars>>

\* Start: <-childCtx.Done() returns and cron.Stop() stops the run loop.
StartWake(i) ==
    /\ startPc[i] = "blocked"
    /\ ctxDone[i]
    /\ cronRunning' = FALSE
    /\ startPc' = [startPc EXCEPT ![i] = "draining"]
    /\ UNCHANGED <<running, cancelFn, cronEntries, ctxDone, parentDone, inflight,
                   failedLogged, stopDuring, notSchedVars>>

\* A Start that returns and leaves the running flag set.
StartReturnKeepsRunning(i) ==
    /\ startPc[i] = "draining"
    /\ InflightTotal(inflight) = 0
    /\ startPc' = [startPc EXCEPT ![i] = "returned"]
    /\ UNCHANGED <<running, cancelFn, cronEntries, cronRunning, ctxDone, parentDone, inflight,
                   failedLogged, stopDuring, notSchedVars>>

\* A Start that returns without waiting for the jobs of the cron.
StartReturnNoDrain(i) ==
    /\ startPc[i] = "draining"
    /\ running' = FALSE
    /\ startPc' = [startPc EXCEPT ![i] = "returned"]
    /\ UNCHANGED <<cancelFn, cronEntries, cronRunning, ctxDone, parentDone, inflight,
                   failedLogged, stopDuring, notSchedVars>>

\* Start: <-cronCtx.Done() returns once no job of the cron is running; then
\* running = false under mu, and Start returns nil.
StartReturn(i) ==
    /\ startPc[i] = "draining"
    /\ InflightTotal(inflight) = 0
    /\ running' = FALSE
    /\ startPc' = [startPc EXCEPT ![i] = "returned"]
    /\ UNCHANGED <<cancelFn, cronEntries, cronRunning, ctxDone, parentDone, inflight,
                   failedLogged, stopDuring, notSchedVars>>

\* Stop: cancelFn() when it is not nil; s.cancelFn is read as it is at that
\* moment, nil before the first Start has stored its cancel function and the
\* one of an earlier Start until the current one has stored its own.
Stop ==
    /\ stopDuring' = stopDuring
                       \cup {i \in StartCalls : startPc[i] \in {"checked", "blocked", "draining"}}
    /\ ctxDone' = IF cancelFn # 0 THEN [ctxDone EXCEPT ![cancelFn] = TRUE] ELSE ctxDone
    /\ UNCHANGED <<running, cancelFn, cronEntries, cronRunning, startPc, parentDone,
                   inflight, failedLogged, notSchedVars>>

\* watch: a signal arrives and the context handed to Start is cancelled, and
\* with it every child context made of it.
ParentCancel ==
    /\ ~parentDone
    /\ parentDone' = TRUE
    /\ ctxDone' = [i \in StartCalls |->
                      ctxDone[i] \/ startPc[i] \in {"blocked", "draining", "returned"}]
    /\ UNCHANGED <<running, cancelFn, cronEntries, cronRunning, startPc, inflight,
                   failedLogged, stopDuring, notSchedVars>>

\* The cron's run loop at a time the schedule names: every entry is due, and
\* each is started in a goroutine of its own, whatever is still running.
Tick ==
    /\ cronRunning
    /\ cronEntries # <<>>
    /\ InflightTotal(inflight) + Len(cronEntries) <= MaxInflight
    /\ inflight' = [i \in StartCalls |->
                       inflight[i] + Cardinality({k \in DOMAIN cronEntries : cronEntries[k] = i})]
    /\ UNCHANGED <<running, cancelFn, cronEntries, cronRunning, startPc, ctxDone, parentDone,
                   failedLogged, stopDuring, notSchedVars>>

\* A job that cancels the scheduler when snapshotFn returns an error.
HandlerReturnStops(i) ==
    /\ inflight[i] > 0
    /\ inflight' = [inflight EXCEPT ![i] = @ - 1]
    /\ \E failed \in BOOLEAN :
          /\ failedLogged' = (failedLogged \/ failed)
          /\ ctxDone' = IF failed THEN [j \in StartCalls |-> TRUE] ELSE ctxDone
    /\ UNCHANGED <<running, cancelFn, cronEntries, cronRunning, startPc, parentDone,
                   stopDuring, notSchedVars>>

\* An invocation of snapshotFn returns, with nil or with an error; the job
\* logs the outcome and ends.
HandlerReturn(i) ==
    /\ inflight[i] > 0
    /\ inflight' = [inflight EXCEPT ![i] = @ - 1]
    /\ \E failed \in BOOLEAN : failedLogged' = (failedLogged \/ failed)
    /\ UNCHANGED <<running, cancelFn, cronEntries, cronRunning, startPc, ctxDone, parentDone,
                   stopDuring, notSchedVars>>

NextSched ==
    \/ \E i \in StartCalls : StartCheck(i)
    \/ \E i \in StartCalls : StartRegister(i)
    \/ \E i \in StartCalls : StartWake(i)
    \/ \E i \in StartCalls : StartReturn(i)
    \/ Stop
    \/ ParentCancel
    \/ Tick
    \/ \E i \in StartCalls : HandlerReturn(i)

SpecSched == InitSched /\ [][NextSched]_vars

\* The goroutine of a Start call keeps running, and an invocation of
\* snapshotFn returns: its cluster calls are bounded by their timeouts.
SpecSchedLive ==
    /\ SpecSched
    /\ \A i \in StartCalls :
          /\ WF_vars(StartRegister(i))
          /\ WF_vars(StartWake(i))
          /\ WF_vars(StartReturn(i))
          /\ WF_vars(HandlerReturn(i))

(***************************************************************************)
(* Properties of Compare                                                   *)
(***************************************************************************)
EntryPairs(report) ==
    {<<report.Entries[i].Type, FullName(report.Entries[i].Resource)>> :
        i \in 1..Len(report.Entries)}

\* The multiset of (drift kind, full name) pairs of a report: pair -> count.
PairBag(report) ==
    [p \in EntryPairs(report) |->
        Cardinality({i \in 1..Len(report.Entries) :
            <<report.Entries[i].Type, FullName(report.Entries[i].Resource)>> = p})]

SwapType(t) ==
    IF t = DriftAdded THEN DriftRemoved
    ELSE IF t = DriftRemoved THEN DriftAdded ELSE t

\* The same multiset with ADDED and REMOVED exchanged.
SwappedPairBag(report) ==
    LET bag == PairBag(report)
    IN [p \in {<<SwapType(q[1]), q[2]>> : q \in DOMAIN bag} |->
            bag[<<SwapType(p[1]), p[2]>>]]

\* nil and empty mappings taken alike.
NormMap(m) == IF m.k = "nilmap" THEN EmptyMap ELSE m

ContentDiffers(a, b) ==
    \/ NormMap(a.Labels) # NormMap(b.Labels)
    \/ NormMap(a.Annotations) # NormMap(b.Annotations)
    \/ NormMap(a.Spec) # NormMap(b.Spec)
    \/ NormMap(a.Data) # NormMap(b.Data)

\* Two resources that differ, and only in a mapping being nil on one side and
\* empty on the other.
DifferOnlyNilEmpty(a, b) == a # b /\ ~ContentDiffers(a, b)

EntriesOf(report, type, name) ==
    {i \in 1..Len(report.Entries) :
        report.Entries[i].Type = type /\ FullName(report.Entries[i].Resource) = name}

BaseIndex == indexResources(cmpBase.Resources)
TargetIndex == indexResources(cmpTarget.Resources)

\* C7: two invocations of Compare on the same (base, target) return identical
\* reports: the same header, the same entries in the same order, the same field
\* diffs in the same order.
C7_CompareDeterministic ==
    (cmpFirst # <<>> /\ cmpSecond # <<>>) => cmpFirst[1] = cmpSecond[1]

\* C8: the report has exactly one REMOVED entry per full name only in base, one
\* ADDED entry per full name only in target, one MODIFIED entry per full name in
\* both whose labels, annotations, spec or data differ, and no other entry.
C8_Classification ==
    cmpFirst # <<>> =>
      LET r == cmpFirst[1]
          expect(type, n) ==
            CASE type = DriftRemoved -> n \in DOMAIN BaseIndex \ DOMAIN TargetIndex
              [] type = DriftAdded -> n \in DOMAIN TargetIndex \ DOMAIN BaseIndex
              [] type = DriftModified ->
                    /\ n \in DOMAIN BaseIndex \cap DOMAIN TargetIndex
                    /\ ContentDiffers(BaseIndex[n], TargetIndex[n])
      IN \A type \in {DriftAdded, DriftRemoved, DriftModified} :
           \A n \in DOMAIN BaseIndex \cup DOMAIN TargetIndex \cup
                    {p[2] : p \in EntryPairs(r)} :
              Cardinality(EntriesOf(r, type, n)) = IF expect(type, n) THEN 1 ELSE 0

C10_NilEmptyAlike ==
    cmpFirst # <<>> =>
      \A n \in DOMAIN BaseIndex \cap DOMAIN TargetIndex :
         DifferOnlyNilEmpty(BaseIndex[n], TargetIndex[n]) =>
            EntriesOf(cmpFirst[1], DriftModified, n) = {}

\* The reports the run has so far.
CmpReports == SeqToSet(cmpFirst \o cmpSecond \o cmpSwapped)

\* The place of a drift kind in the order of the report.
KindRank(type) ==
    CASE type = "ADDED" -> 1 [] type = "MODIFIED" -> 2 [] type = "REMOVED" -> 3

\* C25: in every report the entries are sorted by drift kind under one order
\* of the three kinds, the same in every call, and entries of one kind are in
\* strictly ascending order of full name, so that no two entries share kind
\* and full name.
C25_EntryOrdering ==
    \A report \in CmpReports :
        \A i, j \in 1..Len(report.Entries) :
            i < j =>
                LET x == report.Entries[i]
                    y == report.Entries[j]
                IN /\ KindRank(x.Type) <= KindRank(y.Type)
                   /\ x.Type = y.Type => StrLess(FullName(x.Resource), FullName(y.Resource))

\* A report of two entries of different kinds in which the order of the kinds
\* goes against the order of the full names.
C25_Witness ==
    /\ cmpFirst # <<>>
    /\ Len(cmpFirst[1].Entries) = 2
    /\ cmpFirst[1].Entries[1].Type # cmpFirst[1].Entries[2].Type
    /\ StrLess(FullName(cmpFirst[1].Entries[2].Resource),
               FullName(cmpFirst[1].Entries[1].Resource))

\* The counters of a report against the snapshots it was made of.
CountersAgree(report, base, target) ==
    LET sum == report.Summary
        names(snap) == {FullName(snap.Resources[i]) : i \in 1..Len(snap.Resources)}
        count(type) == Cardinality({i \in 1..Len(report.Entries) :
                                       report.Entries[i].Type = type})
    IN /\ sum.TotalResources = Cardinality(names(target))
       /\ sum.AddedResources = count("ADDED")
       /\ sum.RemovedResources = count("REMOVED")
       /\ sum.ModifiedResources = count("MODIFIED")
       /\ sum.UnchangedResources
             = Cardinality(names(base)) - sum.RemovedResources - sum.ModifiedResources
       /\ sum.AddedResources + sum.ModifiedResources + sum.UnchangedResources
             = sum.TotalResources
       /\ \A c \in {sum.TotalResources, sum.AddedResources, sum.RemovedResources,
                     sum.ModifiedResources, sum.UnchangedResources} : c >= 0

\* C26: in every report total is the number of distinct full names of target,
\* added, removed and modified are the numbers of entries of each kind,
\* unchanged is |base| - removed - modified with |base| the number of distinct
\* full names of base; added + modified + unchanged = total and no counter
\* is negative.
C26_SummaryCounters ==
    /\ cmpFirst # <<>> => CountersAgree(cmpFirst[1], cmpBase, cmpTarget)
    /\ cmpSecond # <<>> => CountersAgree(cmpSecond[1], cmpBase, cmpTarget)
    /\ cmpSwapped # <<>> => CountersAgree(cmpSwapped[1], cmpTarget, cmpBase)

\* A report on a base that names one resource twice: the other resource of
\* target was added, and the one of base is counted once, as modified.
C26_Witness ==
    /\ cmpFirst # <<>>
    /\ Len(cmpBase.Resources) = 2
    /\ cmpFirst[1].Summary.ModifiedResources = 1
    /\ cmpFirst[1].Summary.UnchangedResources = 0
    /\ cmpFirst[1].Summary.AddedResources = 1
    /\ cmpFirst[1].Summary.TotalResources = 2

(***************************************************************************)
(* Properties of Collect                                                   *)
(***************************************************************************)
\* The keys a configured path names, from the outermost mapping inwards.
PathKeys(field) ==
    CASE field = ".metadata.managedFields" -> <<"metadata", "managedFields">>
      [] field = ".metadata.resourceVersion" -> <<"metadata", "resourceVersion">>
      [] field = ".metadata.uid" -> <<"metadata", "uid">>
      [] field = ".metadata.generation" -> <<"metadata", "generation">>
      [] field = ".metadata.creationTimestamp" -> <<"metadata", "creationTimestamp">>
      [] field = ".status" -> <<"status">>

RECURSIVE HasPath(_, _)
HasPath(v, keys) ==
    IF keys = <<>> THEN TRUE
    ELSE /\ IsMap(v)
         /\ Head(keys) \in DOMAIN MapEntries(v)
         /\ HasPath(MapEntries(v)[Head(keys)], Tail(keys))

\* The fields of a resource that are derived from its raw object, laid out as
\* the raw object lays them out.
DerivedView(r) ==
    GoMap([metadata |-> GoMap([labels |-> r.Labels, annotations |-> r.Annotations]),
           spec |-> r.Spec,
           data |-> r.Data])

ColResources == IF colSnapshot = <<>> THEN {} ELSE SeqToSet(colSnapshot[1].Resources)

\* C6: in every resource that Collect returns, every path of the configured
\* strip set is absent from the retained raw object and from the fields derived
\* from it, whichever paths are configured.
C6_StripRemovesConfigured ==
    \A r \in ColResources :
        \A field \in SeqToSet(colCfg.StripFields) :
            /\ ~HasPath(r.Raw, PathKeys(field))
            /\ ~HasPath(DerivedView(r), PathKeys(field))

(***************************************************************************)
(* Properties of the capture pipeline and of time travel                   *)
(***************************************************************************)
\* C1: when the capture pipeline has run twice in succession against a cluster
\* that did not change, the second Commit returned the empty hash and the
\* history is one commit longer than before the two runs.
C1_NoOpCapture ==
    quiet.runs = 2 =>
        /\ commitResult = <<EmptyHash>>
        /\ GetCommitCount(gitRepo) = quiet.base + 1

\* Two snapshots are equal as far as the store promises to keep them: the
\* metadata with the namespaces as a set, and the resources keyed by full name
\* with their identity and their serialised labels, annotations, spec and data.
ResourceEquiv(a, b) ==
    /\ a.APIVersion = b.APIVersion /\ a.Kind = b.Kind
    /\ a.Namespace = b.Namespace /\ a.Name = b.Name
    /\ YamlOf(a.Labels) = YamlOf(b.Labels)
    /\ YamlOf(a.Annotations) = YamlOf(b.Annotations)
    /\ YamlOf(a.Spec) = YamlOf(b.Spec)
    /\ YamlOf(a.Data) = YamlOf(b.Data)

SnapshotEquiv(a, b) ==
    /\ a.Metadata.Timestamp = b.Metadata.Timestamp
    /\ a.Metadata.ClusterName = b.Metadata.ClusterName
    /\ a.Metadata.Context = b.Metadata.Context
    /\ SeqToSet(a.Metadata.Namespaces) = SeqToSet(b.Metadata.Namespaces)
    /\ a.Metadata.ResourceCount = b.Metadata.ResourceCount
    /\ {FullName(r) : r \in SeqToSet(a.Resources)} = {FullName(r) : r \in SeqToSet(b.Resources)}
    /\ \A x \in SeqToSet(a.Resources), y \in SeqToSet(b.Resources) :
          FullName(x) = FullName(y) => ResourceEquiv(x, y)

\* C2: Read of the tree that Write made of a collected snapshot S returns a
\* snapshot equal to S on the metadata and on the resources keyed by full name.
C2_ReadAfterWrite ==
    (readBack # <<>> /\ captured # <<>> /\ pc # "collected") =>
        /\ readBack[1].err = ""
        /\ SnapshotEquiv(readBack[1].snapshot[1], captured[1])

\* C3: once SnapshotByCommit has returned, with a snapshot or with an error,
\* HEAD is attached to the configured branch, and after a successful return
\* the working tree is the tree of that branch's head.
C3_CheckoutPairing ==
    (travel # <<>> /\ travel[1].err # "panic") =>
        /\ ~gitRepo.Detached
        /\ travel[1].err = "" => outputDir = TreeOf(gitRepo, gitRepo.Branch)

\* C19: when SnapshotByCommit is handed a string that is not the hash of a
\* commit of the history, whatever its length, it returns an error to its
\* caller, the process does not crash, and the repository is on the
\* configured branch.
C19_UnknownHashIsError ==
    (travel # <<>> /\ ~ResolvesToCommit(gitRepo, travel[1].hash)) =>
        /\ travel[1].err \notin {"", "panic"}
        /\ ~gitRepo.Detached

(***************************************************************************)
(* Properties of FindCommitByTime                                          *)
(***************************************************************************)
\* The commits of the history whose author time is not after t.
NotAfter(r, t) == {id \in 1..Len(r.Commits) : r.Commits[id].When <= t}

C4_OneHandlerAtATime == InflightTotal(inflight) <= 1

\* The Start calls that passed the running check and have not returned.
ActiveStarts == {i \in StartCalls : startPc[i] \in {"checked", "blocked", "draining"}}

\* C16: a Start call that reaches the running check while an earlier call that
\* passed it has not returned is rejected with an error, and at no moment have
\* two Start calls passed the check without having returned.
C16_DoubleStart ==
    [][/\ \A i \in StartCalls :
             (startPc[i] = "uncalled" /\ startPc'[i] # "uncalled" /\ ActiveStarts # {})
                 => startPc'[i] = "rejected"
       /\ Cardinality(ActiveStarts') <= 1]_vars

\* A Start call has been rejected while another one is blocked on its context.
C16_Witness ==
    \E i, j \in StartCalls : startPc[i] = "rejected" /\ startPc[j] = "blocked"

\* C17: a Start call that passed the running check does not go on to return
\* while the context it blocks on is not cancelled; it returns only when no
\* invocation of the capture function is in flight; no invocation begins
\* unless a Start call is blocked on its context; and once the context passed
\* to Start is cancelled, the call eventually returns.
C17_GracefulCancellation ==
    /\ [](\A i \in StartCalls : startPc[i] \in {"draining", "returned"} => ctxDone[i])
    /\ [][/\ \A i \in StartCalls :
                (startPc[i] # "returned" /\ startPc'[i] = "returned")
                    => InflightTotal(inflight) = 0
          /\ (InflightTotal(inflight)' > InflightTotal(inflight))
                => \E i \in StartCalls : startPc[i] = "blocked"]_vars
    /\ \A i \in StartCalls :
          (parentDone /\ startPc[i] \in {"checked", "blocked", "draining"})
              ~> (startPc[i] = "returned")

\* A Start call has returned, with the context passed to it cancelled, after
\* an invocation of the capture function ran, and nothing is in flight.
C17_Witness ==
    /\ parentDone
    /\ failedLogged
    /\ \E i \in StartCalls : startPc[i] = "returned"
    /\ InflightTotal(inflight) = 0

\* C18: when an invocation of the capture function returns an error the
\* scheduler is left as it was: the running flag, the position of every Start
\* call, the contexts, the registered job and the run loop of the cron are
\* unchanged, so a blocked Start stays blocked and the next tick invokes the
\* capture function again.
C18_FailingTickGoesOn ==
    [][(failedLogged' /\ InflightTotal(inflight)' < InflightTotal(inflight))
          => /\ UNCHANGED <<running, startPc, ctxDone, parentDone, cancelFn, cronEntries,
                            cronRunning>>
             /\ (\E i \in StartCalls : startPc[i] = "blocked")
                   => (cronRunning' /\ cronEntries' # <<>>)]_vars

\* An invocation has failed, the Start call is still blocked on a context that
\* is not cancelled, and a later tick has invoked the capture function again:
\* the return of the failed invocation left fewer than MaxInflight in flight.
C18_Witness ==
    /\ failedLogged
    /\ running
    /\ \E i \in StartCalls : startPc[i] = "blocked" /\ ~ctxDone[i]
    /\ InflightTotal(inflight) = MaxInflight

\* C27: a call of Stop made after a Start call has set the running flag, and
\* before that call has returned, makes that Start call return eventually.
C27_StopNeverLost ==
    \A i \in StartCalls : (i \in stopDuring) ~> (startPc[i] = "returned")

C29_RestartKeepsOneJob ==
    [][(InflightTotal(inflight)' > InflightTotal(inflight))
          => /\ InflightTotal(inflight)' = InflightTotal(inflight) + 1
             /\ \A i \in StartCalls :
                   inflight'[i] > inflight[i] => startPc[i] = "blocked"]_vars

(***************************************************************************)
(* Properties of the field comparison                                      *)
(***************************************************************************)
\* The diffs of the keyed comparison of two maps, as a set: per key of either
\* side, the new value alone, the old value alone, the diffs of the two maps
\* under the key, or both values when they are not deeply equal.
RECURSIVE KeyedDiffs(_, _, _)
KeyedDiffs(prefix, base, target) ==
    LET b == MapEntries(base)
        t == MapEntries(target)
        of(k) ==
          LET path == prefix \o "." \o k
          IN CASE k \notin DOMAIN b ->
                    {[Path |-> path, OldValue |-> NilValue, NewValue |-> t[k]]}
               [] k \in DOMAIN b /\ k \notin DOMAIN t ->
                    {[Path |-> path, OldValue |-> b[k], NewValue |-> NilValue]}
               [] OTHER ->
                    IF IsMap(b[k]) /\ IsMap(t[k]) THEN KeyedDiffs(path, b[k], t[k])
                    ELSE IF b[k] # t[k]
                    THEN {[Path |-> path, OldValue |-> b[k], NewValue |-> t[k]]}
                    ELSE {}
    IN UNION {of(k) : k \in DOMAIN b \cup DOMAIN t}

\* The field diffs the report gives for the one resource of the run.
ReportedDiffs ==
    LET found == EntriesOf(cmpFirst[1], DriftModified, FullName(cmpBase.Resources[1]))
    IN IF found = {} THEN <<>>
       ELSE cmpFirst[1].Entries[CHOOSE i \in found : TRUE].FieldDiffs

C12_FullNamesUnique ==
    colSnapshot # <<>> =>
        \A i, j \in 1..Len(colSnapshot[1].Resources) :
            i # j => FullName(colSnapshot[1].Resources[i])
                     # FullName(colSnapshot[1].Resources[j])

\* C13: in every snapshot returned by Collect, resourceCount is the number of
\* resources and namespaces is the sorted list, without duplicates, of exactly
\* the non-empty namespaces of the resources.
C13_MetadataInvariants ==
    colSnapshot # <<>> =>
        LET md == colSnapshot[1].Metadata
        IN /\ md.ResourceCount = Len(colSnapshot[1].Resources)
           /\ SeqToSet(md.Namespaces) = {r.Namespace : r \in ColResources} \ {<<>>}
           /\ \A i \in 1..(Len(md.Namespaces) - 1) :
                 StrLess(md.Namespaces[i], md.Namespaces[i + 1])

\* C24: when Commit fails or is interrupted after it has staged the changes
\* of the tree, the version store is what it was before the call: no commit
\* was added and the index holds no staged change.
C24_CommitNotPartial ==
    [][SnapshotCommitFails =>
          /\ gitRepo'.Commits = gitRepo.Commits
          /\ gitRepo'.Index = gitRepo.Index
          /\ gitRepo'.Index = TreeOf(gitRepo', HeadCommit(gitRepo'))]_vars

(***************************************************************************)
(* Properties of Write and Read on a used directory                        *)
(***************************************************************************)

\* The manifest paths of the resources of a snapshot.
PathsOf(snapshot) == {filePath(snapshot.Resources[i]) : i \in 1..Len(snapshot.Resources)}

C15_NoChangeNoCommit ==
    [][(SnapshotCommit /\ outputDir = TreeOf(gitRepo, HeadCommit(gitRepo)))
          => /\ commitResult' = <<EmptyHash>>
             /\ gitRepo'.Commits = gitRepo.Commits
             /\ GetCommitCount(gitRepo') = GetCommitCount(gitRepo)
             /\ HeadCommit(gitRepo') = HeadCommit(gitRepo)
             /\ Log(gitRepo') = Log(gitRepo)]_vars

\* Commit has returned the empty string on a history of at least one commit
\* whose head tree is the working tree.
C15_Witness ==
    /\ pc = "idle"
    /\ commitResult = <<EmptyHash>>
    /\ GetCommitCount(gitRepo) >= 1
    /\ outputDir = TreeOf(gitRepo, HeadCommit(gitRepo))

\* C20: Write returns successfully whenever the metadata file could be
\* written, whatever manifests could not; and Read of a directory in which
\* some manifest cannot be parsed returns, without error, the snapshot of the
\* resources of the manifests that can.
C20_PerResourceRecovery ==
    /\ (pc # "collected" /\ ~ioFails.meta) => pc = "written"
    /\ (pc = "written" /\ readBack # <<>>) =>
          LET readable == {p \in ManifestPaths(outputDir) : ResourceDecodes(outputDir.Files[p])}
          IN /\ readBack[1].err = ""
             /\ SeqToSet(readBack[1].snapshot[1].Resources)
                   = {UnmarshalResource(outputDir.Files[p]) : p \in readable}

(***************************************************************************)
(* Properties of Collect over kinds and namespaces                         *)
(***************************************************************************)

\* The configured kinds, up to position n, whose name is known and whose List
\* call succeeds, each followed by what the namespace rule keeps of its list.
RECURSIVE ListedUpTo(_)
ListedUpTo(n) ==
    IF n = 0 THEN <<>>
    ELSE LET resType == colCfg.ResourceTypes[n]
             listed == IF resType \in resourceMapping \ colApi.Fails
                       THEN collectResource(colApi.Items[resType], colCfg)
                       ELSE <<>>
         IN ListedUpTo(n - 1)
            \o SelectSeq(listed, LAMBDA res :
                   /\ res.Namespace \notin SeqToSet(colCfg.ExcludeNamespaces)
                   /\ colCfg.Namespaces = <<>>
                         \/ res.Namespace \in SeqToSet(colCfg.Namespaces))

\* C21: Collect returns a snapshot whatever kinds are unknown or fail to
\* list, and its resources are the filtered resources of every configured
\* kind that is known and whose List call succeeded, in configured order.
C21_PartialProgress ==
    colSnapshot # <<>> =>
        colSnapshot[1].Resources = ListedUpTo(Len(colCfg.ResourceTypes))

\* Collect has returned resources of a later kind although the List call of
\* the first configured kind failed.
C21_Witness ==
    /\ colSnapshot # <<>>
    /\ Len(colCfg.ResourceTypes) = 3
    /\ colCfg.ResourceTypes[1] \in colApi.Fails
    /\ colSnapshot[1].Resources # <<>>

\* The objects the List calls of the configured kinds return, as resources.
ListedResources ==
    UNION {SeqToSet(collectResource(colApi.Items[t], colCfg)) :
              t \in (SeqToSet(colCfg.ResourceTypes) \cap resourceMapping) \ colApi.Fails}

\* C22: Collect keeps a listed object if and only if its namespace is not in
\* the deny-list and the allow-list is empty or holds its namespace; the empty
\* namespace of a cluster-scoped object is treated as any other value, and a
\* namespace in both lists is dropped.
C22_NamespaceFiltering ==
    colSnapshot # <<>> =>
        /\ ColResources \subseteq ListedResources
        /\ \A res \in ListedResources :
              res \in ColResources
                  <=> /\ \A i \in 1..Len(colCfg.ExcludeNamespaces) :
                            colCfg.ExcludeNamespaces[i] # res.Namespace
                      /\ \/ Len(colCfg.Namespaces) = 0
                         \/ \E i \in 1..Len(colCfg.Namespaces) :
                               colCfg.Namespaces[i] = res.Namespace

\* Collect has kept an object of an allowed namespace and dropped both a
\* listed object whose namespace is in the two lists and a listed
\* cluster-scoped object.
C22_Witness ==
    /\ colSnapshot # <<>>
    /\ ColResources # {}
    /\ \E res \in ListedResources \ ColResources :
          /\ res.Namespace = KubeSystem
          /\ KubeSystem \in SeqToSet(colCfg.Namespaces)
          /\ KubeSystem \in SeqToSet(colCfg.ExcludeNamespaces)
    /\ \E res \in ListedResources \ ColResources : res.Namespace = <<>>

(***************************************************************************)
(* Properties of History                                                   *)
(***************************************************************************)

\* C23: every entry History returns for a commit made by Commit has a
\* resourceCount equal to the N of the commit's message, the resource count
\* of the snapshot that was committed.
C23_HistoryResourceCount ==
    findResult # <<>> =>
        \A i \in 1..Len(findResult[1].entries) :
            LET entry == findResult[1].entries[i]
            IN /\ entry.ResourceCount = entry.Message.ResourceCount
               /\ entry.ResourceCount
                     = Cardinality(DOMAIN findRepo.Commits[entry.CommitHash.id].Tree.Files)

\* C30: Write maps resources with different full names to different file
\* paths, so after Write(S) the directory holds as many manifests as S has
\* distinct full names and no manifest is overwritten by another resource's.
C30_PathsInjective ==
    pc = "written"
        => LET rs == captured[1].Resources
               names == {FullName(rs[i]) : i \in 1..Len(rs)}
           IN /\ \A i, j \in 1..Len(rs) :
                    FullName(rs[i]) # FullName(rs[j]) => filePath(rs[i]) # filePath(rs[j])
              /\ Cardinality(ManifestPaths(outputDir)) = Cardinality(names)

====
